---- MODULE Spec2Model ----
(***************************************************************************)
(* multi-map-backend: a relay in front of the Google Places and Routes     *)
(* APIs (src/src/main.rs, src/src/api/mod.rs).                             *)
(*                                                                         *)
(* Two handlers, get_places and get_routes, each validate or reshape the   *)
(* caller's input, issue one upstream POST, and turn the provider's reply  *)
(* into the caller's response by deserialising it into a typed struct and  *)
(* serialising that struct again.  The model keeps that conversion: JSON   *)
(* values are tagged records, the typed structs hold f32 where the source  *)
(* does, and a number of the reply reaches the caller as the shortest      *)
(* decimal of the nearest single-precision float.                          *)
(***************************************************************************)
EXTENDS Integers, Sequences, FiniteSets, TLC

(***************************************************************************)
(* Bounds of the model.                                                    *)
(***************************************************************************)
\* longest `places` list of an upstream reply
MaxPlaces == 2
\* longest `routes` list of an upstream reply
MaxRoutes == 2
\* requests in flight at once
NumRequests == 2

(***************************************************************************)
(* Evaluation order.  The({ F(u) : u \in {e} }) is F(e) with e computed    *)
(* first and once: a result that the code holds in a local (`let r = ...;  *)
(* match r`) is bound this way before it is taken apart.  Where several    *)
(* values are bound together they go in as a tuple.                        *)
(***************************************************************************)
The(S) == CHOOSE x \in S : TRUE

(***************************************************************************)
(* Arithmetic helpers.  TLC's integers are 32 bits wide, so a              *)
(* product a * b / c is computed bit by bit without forming a * b.  A      *)
(* quotient is a record [q, r, c]: the value q + r / c with 0 <= r < c.    *)
(***************************************************************************)
Pow2Table == <<1, 2, 4, 8, 16, 32, 64, 128, 256, 512, 1024, 2048, 4096, 8192, 16384,
               32768, 65536, 131072, 262144, 524288, 1048576, 2097152, 4194304,
               8388608, 16777216, 33554432, 67108864, 134217728, 268435456,
               536870912, 1073741824>>
Pow10Table == <<1, 10, 100, 1000, 10000, 100000, 1000000, 10000000, 100000000,
                1000000000>>
Pow2(k) == Pow2Table[k + 1]
Pow10(k) == Pow10Table[k + 1]

Abs(x) == IF x < 0 THEN -x ELSE x

\* x + y for 0 <= x, y < c, as <<carry, (x + y) mod c>>
AddMod(x, y, c) == IF x >= c - y THEN <<1, x - (c - y)>> ELSE <<0, x + y>>

\* t = <<h, a, b, c>>: from h, the quotient a * (b div 2) / c, to the quotient
\* a * b / c: twice h, plus a / c when b is odd
Double(t) ==
    LET h == t[1]
        a == t[2]
        b == t[3]
        c == t[4]
        d == AddMod(h.r, h.r, c)
        s == AddMod(d[2], IF b % 2 = 1 THEN a % c ELSE 0, c)
    IN  [q |-> 2 * h.q + d[1] + (IF b % 2 = 1 THEN a \div c ELSE 0) + s[1],
         r |-> s[2], c |-> c]

\* the quotient a * b / c
RECURSIVE MulDivRem(_, _, _)
MulDivRem(a, b, c) ==
    IF b = 0 THEN [q |-> 0, r |-> 0, c |-> c]
    ELSE The({ Double(u) : u \in {<<MulDivRem(a, b \div 2, c), a, b, c>>} })

Floor(t) == t.q
Ceil(t) == IF t.r = 0 THEN t.q ELSE t.q + 1
\* to the nearest integer, a tie to the even one
Round(t) == IF t.r > t.c - t.r \/ (t.r = t.c - t.r /\ t.q % 2 = 1) THEN t.q + 1 ELSE t.q
Exact(t) == t.r = 0

(***************************************************************************)
(* f32.  A JSON number is the decimal digits / 10^scale.  A single         *)
(* precision float is [neg, m, e], the value (-1)^neg * m * 2^e with       *)
(* 2^23 <= m < 2^24, or m = 0.  The operators cover the magnitudes the     *)
(* 32-bit integers of TLC can carry: zero, or 0.1 <= |x| < 10^9            *)
(* with at most 7 decimal places (degrees in units of 1e-7 fit).           *)
(***************************************************************************)
TwoP23 == Pow2(23)
TwoP24 == Pow2(24)

\* whether D / 10^p * 2^k >= 2^23
InBinade(D, p, k) == Floor(MulDivRem(D, Pow2(k), Pow10(p))) >= TwoP23

\* floor(log2(n)), n >= 1
Log2(n) == CHOOSE j \in 0..29 : Pow2(j) <= n /\ n < Pow2(j + 1)

\* the k with 2^23 <= D / 10^p * 2^k < 2^24: read off the integer part of
\* D / 10^p, or, below 1, the first k that reaches 2^23
Scale(D, p) ==
    IF D >= Pow10(p) THEN 23 - Log2(D \div Pow10(p))
    ELSE CHOOSE k \in 24..27 : InBinade(D, p, k) /\ ~InBinade(D, p, k - 1)

\* t = <<neg, k, m>>: a mantissa rounded up to 2^24 is 2^23 one binade higher
Renorm(t) ==
    IF t[3] = TwoP24 THEN [neg |-> t[1], m |-> TwoP23, e |-> 1 - t[2]]
                     ELSE [neg |-> t[1], m |-> t[3], e |-> -t[2]]

\* t = <<neg, n, p, k>>: the mantissa n / 10^p * 2^k, rounded
Mantissa(t) ==
    The({ Renorm(u) : u \in {<<t[1], t[4],
           The({ Round(w) : w \in {MulDivRem(t[2], IF t[4] >= 0 THEN Pow2(t[4]) ELSE 1,
                          IF t[4] >= 0 THEN Pow10(t[3]) ELSE Pow10(t[3]) * Pow2(-t[4]))} })>>} })

\* `as f32` of the parsed number: the nearest float, a tie to the even mantissa
NearestF32(D, p) ==
    IF D = 0 THEN [neg |-> FALSE, m |-> 0, e |-> 0]
    ELSE The({ Mantissa(u) : u \in {<<D < 0, Abs(D), p, Scale(Abs(D), p)>>} })

\* the quotient n * 2^e * 10^q
Times10(n, e, q) ==
    MulDivRem(IF e >= 0 THEN n * Pow2(e) ELSE n,
              IF q >= 0 THEN Pow10(q) ELSE 1,
              (IF q >= 0 THEN 1 ELSE Pow10(-q)) * (IF e >= 0 THEN 1 ELSE Pow2(-e)))

\* t = <<even, lo, hi>>: the integers between two quotients; the ends count when
\* the mantissa is even
Interval(t) ==
    [lo |-> IF ~t[1] /\ Exact(t[2]) THEN Ceil(t[2]) + 1 ELSE Ceil(t[2]),
     hi |-> IF ~t[1] /\ Exact(t[3]) THEN Floor(t[3]) - 1 ELSE Floor(t[3])]

\* the integers c with c / 10^q inside the rounding interval of m * 2^e: every
\* decimal there parses back to the same float.  Just above a power of two the
\* float below is half as far away.
Candidates(m, e, q) ==
    The({ Interval(u) : u \in {<<m % 2 = 0,
           Times10(IF m = TwoP23 THEN 4 * m - 1 ELSE 2 * m - 1,
                   IF m = TwoP23 THEN e - 2 ELSE e - 1, q),
           Times10(2 * m + 1, e - 1, q)>>} })

Clamp(c, r) == IF r < c.lo THEN c.lo ELSE IF r > c.hi THEN c.hi ELSE r

\* the shortest decimal that parses back to m * 2^e, the closest one of that
\* length: the digits ryu prints for an f32.  Pick has t = <<m, e, q, c, r>>, the
\* candidates c and the rounded value r at q decimal places.
RECURSIVE Shortest(_, _, _)
Pick(t) ==
    IF t[4].lo <= t[4].hi /\ t[4].hi >= 1
    THEN IF t[3] >= 0 THEN [digits |-> Clamp(t[4], t[5]), scale |-> t[3]]
                      ELSE [digits |-> Clamp(t[4], t[5]) * Pow10(-t[3]), scale |-> 0]
    ELSE Shortest(t[1], t[2], t[3] + 1)
Shortest(m, e, q) ==
    The({ Pick(u) : u \in {<<m, e, q, Candidates(m, e, q),
                              The({ Round(w) : w \in {Times10(m, e, q)} })>>} })

\* a decimal without trailing zeros after the point
RECURSIVE Norm(_)
Norm(v) ==
    IF v.scale > 0 /\ v.digits % 10 = 0
    THEN Norm([digits |-> v.digits \div 10, scale |-> v.scale - 1]) ELSE v

RECURSIVE NumDigits(_)
NumDigits(v) == IF v = 0 THEN 0 ELSE 1 + NumDigits(v \div 10)

\* digits of the integer part of m * 2^e
IntDigits(m, e) == NumDigits(IF e >= 0 THEN m * Pow2(e) ELSE m \div Pow2(-e))

\* t = <<neg, s>>
Signed(t) == [digits |-> IF t[1] THEN -t[2].digits ELSE t[2].digits, scale |-> t[2].scale]

\* the decimal serde_json writes for an f32
FormatF32(f) ==
    IF f.m = 0 THEN [digits |-> 0, scale |-> 0]
    ELSE The({ Signed(u) : u \in
                 {<<f.neg, The({ Norm(w) : w \in {Shortest(f.m, f.e, -IntDigits(f.m, f.e))} })>>} })

(***************************************************************************)
(* f32 widened to f64.  serde_json's Value keeps a number as f64, so an    *)
(* f32 put into json!({..}) is written as the shortest decimal that reads  *)
(* back as the double m * 2^e.  That double's neighbours are 2^(e - 29)    *)
(* away, so a decimal reads back as it when it is within 2^(e - 30).  For  *)
(* e < 0 let t = -e and m * 2^e * 10^p = N + g / 2^t with p decimal places *)
(* taken: N is in reach when g * 2^30 <= 10^p, N + 1 when                  *)
(* (2^t - g) * 2^30 <= 10^p.  A decimal is <<integer part, fraction        *)
(* digits>>, which 32 bits cannot hold as one number.                      *)
(***************************************************************************)
\* floor(10^p / 2^30), for p <= 17
Reach(p) == IF p < 10 THEN 0 ELSE Floor(MulDivRem(Pow10(9), Pow10(p - 9), Pow2(30)))

\* the digits d plus one in the last place, as <<carry, digits>>
RECURSIVE IncDigits(_)
IncDigits(d) ==
    IF d = <<>> THEN <<1, <<>>>>
    ELSE IF d[Len(d)] < 9 THEN <<0, [d EXCEPT ![Len(d)] = @ + 1]>>
    ELSE The({ <<u[1], Append(u[2], 0)>> : u \in {IncDigits(SubSeq(d, 1, Len(d) - 1))} })

\* t = <<int, d>>: the decimal one unit in its last place higher
RoundUp(t) == The({ <<t[1] + u[1], u[2]>> : u \in {IncDigits(t[2])} })

\* g / 2^t rounds down: it is below a half, or a half after an even digit
RoundsDown(d, g, t) ==
    g < Pow2(t) - g \/ g = 0 \/ (g = Pow2(t) - g /\ d # <<>> /\ d[Len(d)] % 2 = 0)

\* the shortest decimal in reach of int + 0.d + g / 2^t / 10^Len(d), the nearer
\* of the two when both are
RECURSIVE ShortestF64(_, _, _, _)
ShortestF64(int, d, g, t) ==
    IF (IF g <= Pow2(t) - g THEN g ELSE Pow2(t) - g) <= Reach(Len(d))
    THEN IF RoundsDown(d, g, t) THEN <<int, d>> ELSE RoundUp(<<int, d>>)
    ELSE ShortestF64(int, Append(d, (10 * g) \div Pow2(t)), (10 * g) % Pow2(t), t)

\* the decimal serde_json writes for an f32 held as f64, sign apart
FormatF32AsF64(f) ==
    IF f.m = 0 THEN <<0, <<>>>>
    ELSE IF f.e >= 0 THEN <<f.m * Pow2(f.e), <<>>>>
    ELSE ShortestF64(f.m \div Pow2(-f.e), <<>>, f.m % Pow2(-f.e), -f.e)

(***************************************************************************)
(* JSON values, as tagged records.  An object is a function from its keys  *)
(* to values (a key appears once), with the order its text has the keys    *)
(* in; Malformed stands for a body that is not JSON at all.                *)
(***************************************************************************)
JNull == [t |-> "null"]
JStr(s) == [t |-> "string", s |-> s]
JNum(D, p) == [t |-> "number", digits |-> D, scale |-> p]
\* a number of more digits: sign, integer part, digits after the point
JNumLong(neg, int, frac) == [t |-> "number", neg |-> neg, int |-> int, frac |-> frac]
JArr(a) == [t |-> "array", a |-> a]
\* an object whose text has the keys in the order `keys`
JObjIn(keys, o) == [t |-> "object", o |-> o, keys |-> keys]

\* the order keys are written in when none is given: that of the fields of the
\* structs of api/mod.rs, which is the order a derived Serialize writes them
\* in, then keys the structs do not have
KeyOrder ==
    <<"places", "routes", "id", "formattedAddress", "priceLevel", "displayName", "location",
      "text", "languageCode", "latitude", "longitude",
      "distanceMeters", "duration", "polyline", "encodedPolyline",
      "types", "staticDuration", "error", "code", "status">>

\* the members of S in the order of `order`
RECURSIVE KeysOf(_, _)
KeysOf(order, S) ==
    IF order = <<>> THEN <<>>
    ELSE (IF Head(order) \in S THEN <<Head(order)>> ELSE <<>>) \o KeysOf(Tail(order), S)

\* t = <<the keys, the object>>
JObjOf(t) == JObjIn(KeysOf(KeyOrder, t[1]), t[2])
JObj(o) == The({ JObjOf(w) : w \in { <<DOMAIN u, u>> : u \in {o} } })
Malformed == [t |-> "malformed"]
\* what a struct field sees when its key is not in the object
Absent == [t |-> "absent"]

Ok(v) == [ok |-> TRUE, val |-> v]
Err(e) == [ok |-> FALSE, err |-> e]
None == [some |-> FALSE]
Some(v) == [some |-> TRUE, v |-> v]

Field(o, k) == IF k \in DOMAIN o THEN o[k] ELSE Absent


(***************************************************************************)
(* serde's derived Deserialize, for the structs of api/mod.rs.  A struct   *)
(* is read from an object (unknown keys ignored) or, positionally, from an *)
(* array.  The values that are there are read in the order of the text,    *)
(* and the first that fails is the error; then an array that is too short  *)
(* is an "invalid length" and one that is too long has "trailing           *)
(* characters", and an object that lacks a required key has a "missing     *)
(* field".                                                                 *)
(***************************************************************************)
\* nothing wrong with the length of what was read
NoRest == "none"

\* the positions in `names` of the keys of `keys`, in the order of `keys`
RECURSIVE FieldOrder(_, _)
FieldOrder(keys, names) ==
    IF keys = <<>> THEN <<>>
    ELSE (IF \E i \in 1..Len(names) : names[i] = Head(keys)
          THEN <<CHOOSE i \in 1..Len(names) : names[i] = Head(keys)>>
          ELSE <<>>) \o FieldOrder(Tail(keys), names)

\* the values of a struct by field name, the order its fields are read in, and
\* what the end of an array gives
AsStruct(v, names) ==
    CASE v.t = "object" ->
            [ok |-> TRUE, val |-> v.o, order |-> FieldOrder(v.keys, names), rest |-> NoRest]
      [] v.t = "array" ->
            [ok |-> TRUE,
             val |-> [k \in {names[i] : i \in {j \in 1..Len(names) : j <= Len(v.a)}} |->
                         v.a[CHOOSE i \in 1..Len(names) : names[i] = k]],
             order |-> [i \in {j \in 1..Len(names) : j <= Len(v.a)} |-> i],
             rest |-> IF Len(v.a) < Len(names) THEN "invalid length"
                      ELSE IF Len(v.a) > Len(names) THEN "trailing characters"
                      ELSE NoRest]
      [] v.t = "absent" -> Err("missing field")
      [] OTHER -> Err("invalid type")

DeString(v) ==
    CASE v.t = "string" -> Ok(v.s)
      [] v.t = "absent" -> Err("missing field")
      [] OTHER -> Err("invalid type")

\* Option<String>: a missing key and null are both None
DeOptionString(v) ==
    CASE v.t = "string" -> Ok(Some(v.s))
      [] v.t \in {"absent", "null"} -> Ok(None)
      [] OTHER -> Err("invalid type")

\* f32: any JSON number, narrowed to single precision
DeF32(v) ==
    CASE v.t = "number" -> Ok(NearestF32(v.digits, v.scale))
      [] v.t = "absent" -> Err("missing field")
      [] OTHER -> Err("invalid type")

\* t = <<the results of the fields, by position in the struct; the order the
\* fields were read in; the rest of AsStruct>>
AllOk(t) == t[3] = NoRest /\ \A i \in DOMAIN t[1] : t[1][i].ok
\* the error of a struct: of the first value read that failed, else of the
\* array's length, else of the missing key
FirstErr(t) ==
    IF \E j \in DOMAIN t[2] : ~t[1][t[2][j]].ok
    THEN t[1][t[2][CHOOSE j \in DOMAIN t[2] :
                      /\ ~t[1][t[2][j]].ok
                      /\ \A h \in 1..(j - 1) : t[1][t[2][h]].ok]]
    ELSE IF t[3] # NoRest THEN Err(t[3])
    ELSE Err("missing field")

\* struct DisplayName { text, languageCode }
DisplayNameOf(t) ==
    IF ~AllOk(t) THEN FirstErr(t)
    ELSE Ok([text |-> t[1][1].val, language_code |-> t[1][2].val])
DisplayNameFields(s) ==
    IF ~s.ok THEN s
    ELSE The({ DisplayNameOf(u) : u \in {<< <<DeString(Field(s.val, "text")),
                DeOptionString(Field(s.val, "languageCode"))>>, s.order, s.rest>>} })
DeDisplayName(v) == The({ DisplayNameFields(u) : u \in {AsStruct(v, <<"text", "languageCode">>)} })

\* struct Location { latitude, longitude }
LocationOf(t) ==
    IF ~AllOk(t) THEN FirstErr(t)
    ELSE Ok([latitude |-> t[1][1].val, longitude |-> t[1][2].val])
LocationFields(s) ==
    IF ~s.ok THEN s
    ELSE The({ LocationOf(u) : u \in
                 {<< <<DeF32(Field(s.val, "latitude")), DeF32(Field(s.val, "longitude"))>>,
                     s.order, s.rest>>} })
DeLocation(v) == The({ LocationFields(u) : u \in {AsStruct(v, <<"latitude", "longitude">>)} })

\* struct GooglePlace { id, formattedAddress, priceLevel, displayName, location }
GooglePlaceOf(t) ==
    IF ~AllOk(t) THEN FirstErr(t)
    ELSE Ok([id |-> t[1][1].val, formatted_address |-> t[1][2].val,
             price_level |-> t[1][3].val, display_name |-> t[1][4].val,
             location |-> t[1][5].val])
GooglePlaceFields(s) ==
    IF ~s.ok THEN s
    ELSE The({ GooglePlaceOf(u) : u \in {<< <<DeString(Field(s.val, "id")),
                DeString(Field(s.val, "formattedAddress")),
                DeOptionString(Field(s.val, "priceLevel")),
                DeDisplayName(Field(s.val, "displayName")),
                DeLocation(Field(s.val, "location"))>>, s.order, s.rest>>} })
DeGooglePlace(v) ==
    The({ GooglePlaceFields(u) : u \in
            {AsStruct(v, <<"id", "formattedAddress", "priceLevel", "displayName", "location">>)} })

\* t = <<r, rest>>, the result r of the first element and the result of the
\* elements after it: the first bad element fails the list
VecOf(t) ==
    IF ~t[1].ok THEN t[1]
    ELSE IF ~t[2].ok THEN t[2]
    ELSE Ok(<<t[1].val>> \o t[2].val)

\* Vec<GooglePlace>: every element, in order
RECURSIVE DeVecGooglePlace(_)
DeVecGooglePlace(a) ==
    IF a = <<>> THEN Ok(<<>>)
    ELSE The({ VecOf(u) : u \in {<<DeGooglePlace(Head(a)), DeVecGooglePlace(Tail(a))>>} })

SomeOf(r) == IF r.ok THEN Ok(Some(r.val)) ELSE r

\* DeOptionVecGooglePlace for a field declared Vec<GooglePlace>, without the Option
DeRequiredVecGooglePlace(v) ==
    CASE v.t = "array" -> The({ SomeOf(u) : u \in {DeVecGooglePlace(v.a)} })
      [] v.t = "absent" -> Err("missing field")
      [] OTHER -> Err("invalid type")

\* Option<Vec<GooglePlace>>
DeOptionVecGooglePlace(v) ==
    CASE v.t = "array" -> The({ SomeOf(u) : u \in {DeVecGooglePlace(v.a)} })
      [] v.t \in {"absent", "null"} -> Ok(None)
      [] OTHER -> Err("invalid type")

\* struct GooglePlacesReponse { places }, from the body of the reply
GooglePlacesReponseOf(t) ==
    IF ~AllOk(t) THEN FirstErr(t) ELSE Ok([places |-> t[1][1].val])
GooglePlacesReponseFields(s) ==
    IF ~s.ok THEN s
    ELSE The({ GooglePlacesReponseOf(u) : u \in
                 {<< <<DeOptionVecGooglePlace(Field(s.val, "places"))>>, s.order, s.rest>>} })
DeGooglePlacesReponse(v) ==
    IF v.t = "malformed" THEN Err("expected value")
    ELSE The({ GooglePlacesReponseFields(u) : u \in {AsStruct(v, <<"places">>)} })

\* struct Polyline { encodedPolyline }
PolylineOf(t) ==
    IF ~AllOk(t) THEN FirstErr(t) ELSE Ok([encoded_polyline |-> t[1][1].val])
PolylineFields(s) ==
    IF ~s.ok THEN s
    ELSE The({ PolylineOf(u) : u \in
                 {<< <<DeString(Field(s.val, "encodedPolyline"))>>, s.order, s.rest>>} })
DePolyline(v) == The({ PolylineFields(u) : u \in {AsStruct(v, <<"encodedPolyline">>)} })

\* struct RoutesResponse { distanceMeters, duration, polyline }
RoutesResponseOf(t) ==
    IF ~AllOk(t) THEN FirstErr(t)
    ELSE Ok([distance_meters |-> t[1][1].val, duration |-> t[1][2].val,
             polyline |-> t[1][3].val])
RoutesResponseFields(s) ==
    IF ~s.ok THEN s
    ELSE The({ RoutesResponseOf(u) : u \in {<< <<DeF32(Field(s.val, "distanceMeters")),
                DeString(Field(s.val, "duration")),
                DePolyline(Field(s.val, "polyline"))>>, s.order, s.rest>>} })
DeRoutesResponse(v) ==
    The({ RoutesResponseFields(u) : u \in
            {AsStruct(v, <<"distanceMeters", "duration", "polyline">>)} })

RECURSIVE DeSeqRoutesResponse(_)
DeSeqRoutesResponse(a) ==
    IF a = <<>> THEN Ok(<<>>)
    ELSE The({ VecOf(u) : u \in {<<DeRoutesResponse(Head(a)), DeSeqRoutesResponse(Tail(a))>>} })

\* Vec<RoutesResponse>: required, so a missing key or null is an error
DeVecRoutesResponse(v) ==
    CASE v.t = "array" -> DeSeqRoutesResponse(v.a)
      [] v.t = "absent" -> Err("missing field")
      [] OTHER -> Err("invalid type")

\* struct GetRoutesReponse { routes }, from the body of the reply
GetRoutesReponseOf(t) ==
    IF ~AllOk(t) THEN FirstErr(t) ELSE Ok([routes |-> t[1][1].val])
GetRoutesReponseFields(s) ==
    IF ~s.ok THEN s
    ELSE The({ GetRoutesReponseOf(u) : u \in
                 {<< <<DeVecRoutesResponse(Field(s.val, "routes"))>>, s.order, s.rest>>} })
DeGetRoutesReponse(v) ==
    IF v.t = "malformed" THEN Err("expected value")
    ELSE The({ GetRoutesReponseFields(u) : u \in {AsStruct(v, <<"routes">>)} })

(***************************************************************************)
(* serde's derived Serialize: every field is written, None as null, an f32 *)
(* as its shortest decimal.                                                *)
(***************************************************************************)
SerOptionString(o) == IF o.some THEN JStr(o.v) ELSE JNull
DecimalNum(d) == JNum(d.digits, d.scale)
SerF32(f) == The({ DecimalNum(u) : u \in {FormatF32(f)} })

SerDisplayName(d) ==
    JObj([text |-> JStr(d.text), languageCode |-> SerOptionString(d.language_code)])

\* SerLocation with the two coordinates exchanged
SerLocationSwapped(l) ==
    JObj([latitude |-> SerF32(l.longitude), longitude |-> SerF32(l.latitude)])

SerLocation(l) ==
    JObj([latitude |-> SerF32(l.latitude), longitude |-> SerF32(l.longitude)])

SerGooglePlace(p) ==
    JObj([id |-> JStr(p.id),
          formattedAddress |-> JStr(p.formatted_address),
          priceLevel |-> SerOptionString(p.price_level),
          displayName |-> SerDisplayName(p.display_name),
          location |-> SerLocation(p.location)])

SerGooglePlacesReponse(g) ==
    JObj([places |-> IF g.places.some
                     THEN JArr([i \in 1..Len(g.places.v) |-> SerGooglePlace(g.places.v[i])])
                     ELSE JNull])

SerPolyline(p) == JObj([encodedPolyline |-> JStr(p.encoded_polyline)])

SerRoutesResponse(r) ==
    JObj([distanceMeters |-> SerF32(r.distance_meters),
          duration |-> JStr(r.duration),
          polyline |-> SerPolyline(r.polyline)])

\* SerGetRoutesReponse keeping the first candidate alone
SerGetRoutesReponseFirst(g) ==
    JObj([routes |-> JArr([i \in 1..(IF Len(g.routes) = 0 THEN 0 ELSE 1) |->
                              SerRoutesResponse(g.routes[i])])])

SerGetRoutesReponse(g) ==
    JObj([routes |-> JArr([i \in 1..Len(g.routes) |-> SerRoutesResponse(g.routes[i])])])

(***************************************************************************)
(* Constants of api/mod.rs.                                                *)
(***************************************************************************)
CONTENT_TYPE == "Content-type"
JSON_TYPE == "application/json"
GOOGLE_FIELD_MASK_HEADER == "X-Goog-FieldMask"
FIELD_MASK == "places.id,places.displayName,places.formattedAddress,places.location"
GOOGLE_API_KEY_HEADER == "X-Goog-Api-Key"
GOOGLE_URL == "https://places.googleapis.com/v1/places:searchText"
GOOGLE_ROUTES_URL == "https://routes.googleapis.com/directions/v2:computeRoutes"
MAX_RESULT_COUNT_KEY == "maxResultCount"
MAX_RESULT_COUNT_VALUE == "10"
ROUTE_FIELD_MASK == "routes.duration,routes.distanceMeters,routes.polyline.encodedPolyline"

JBool(b) == [t |-> "bool", b |-> b]

(***************************************************************************)
(* get_places, as far as its first await.  A text query is a sequence of   *)
(* characters.                                                             *)
(***************************************************************************)
\* the needle of #[validate(does_not_contain = "undefined")]
Sentinel == <<"u", "n", "d", "e", "f", "i", "n", "e", "d">>

\* str::contains
Contains(s, needle) ==
    \E i \in 0..(Len(s) - Len(needle)) : SubSeq(s, i + 1, i + Len(needle)) = needle

\* Validate with the rule read as "is not the sentinel"
ValidateEquals(p) == p.text_query # Sentinel

\* p.validate().is_ok(): the one rule of GooglePlacesRequest
Validate(p) == ~Contains(p.text_query, Sentinel)

\* the orders a HashMap of the two entries may be iterated in: its hasher is
\* seeded at random, so either can be the order of the text
PlacesKeyOrders ==
    { <<"textQuery", MAX_RESULT_COUNT_KEY>>, <<MAX_RESULT_COUNT_KEY, "textQuery">> }

\* the HashMap sent as the JSON body, its entries written in the order `keys`
PlacesPayload(p, keys) ==
    JObjIn(keys, [textQuery |-> JStr(p.text_query),
                  maxResultCount |-> JStr(MAX_RESULT_COUNT_VALUE)])

\* client.post(GOOGLE_URL).json(&map).header(..).header(..).header(..): json() sets
\* the content type of the body, each header() appends
PlacesUpstreamRequest(s, p, keys) ==
    [method |-> "POST", url |-> GOOGLE_URL, json |-> PlacesPayload(p, keys),
     headers |-> << <<"content-type", JSON_TYPE>>,
                    <<GOOGLE_FIELD_MASK_HEADER, FIELD_MASK>>,
                    <<CONTENT_TYPE, JSON_TYPE>>,
                    <<GOOGLE_API_KEY_HEADER, s.google_key>> >>]

(***************************************************************************)
(* get_routes, as far as its first await.                                  *)
(***************************************************************************)
\* Value::from(f32): the float widened to f64
ValueFromF32(f) == The({ JNumLong(f.neg, u[1], u[2]) : u \in {FormatF32AsF64(f)} })

LatLngJson(l) ==
    JObjIn(<<"location">>,
           [location |-> JObjIn(<<"latLng">>,
               [latLng |-> JObjIn(<<"latitude", "longitude">>,
                   [latitude |-> ValueFromF32(l.latitude),
                    longitude |-> ValueFromF32(l.longitude)])])])

\* the json!({..}) body: a serde_json Value, whose objects are maps sorted by
\* key, so the text has the keys of each object in that order
RoutesPayload(body) ==
    JObjIn(<<"computeAlternativeRoutes", "departureTime", "destination", "languageCode",
             "origin", "routeModifiers", "routingPreference", "travelMode", "units">>,
           [origin |-> LatLngJson(body.origin_location),
            destination |-> LatLngJson(body.destination_location),
            departureTime |-> JStr(body.departure_time),
            travelMode |-> JStr("DRIVE"),
            routingPreference |-> JStr("TRAFFIC_AWARE_OPTIMAL"),
            computeAlternativeRoutes |-> JBool(TRUE),
            routeModifiers |-> JObjIn(<<"avoidFerries", "avoidHighways", "avoidTolls">>,
                                      [avoidTolls |-> JBool(FALSE),
                                       avoidHighways |-> JBool(FALSE),
                                       avoidFerries |-> JBool(FALSE)]),
            languageCode |-> JStr("en-US"),
            units |-> JStr("METRIC")])

RoutesUpstreamRequest(s, body) ==
    [method |-> "POST", url |-> GOOGLE_ROUTES_URL, json |-> RoutesPayload(body),
     headers |-> << <<"content-type", JSON_TYPE>>,
                    <<GOOGLE_FIELD_MASK_HEADER, ROUTE_FIELD_MASK>>,
                    <<CONTENT_TYPE, JSON_TYPE>>,
                    <<GOOGLE_API_KEY_HEADER, s.google_key>> >>]

(***************************************************************************)
(* The responses a handler returns.                                        *)
(***************************************************************************)
BadRequest == [status |-> 400, text |-> "Invalid request"]
InternalError == [status |-> 500, text |-> "Something went wrong. Try again later"]
JsonResponse(v) == [status |-> 200, json |-> v]
HealthOk == [status |-> 200, text |-> "OK"]

\* what the provider's side of a call can hand back
SendErr(e) == [t |-> "err", e |-> e]
SendOk(status) == [t |-> "ok", status |-> status]
BodyErr(e) == [t |-> "err", e |-> e]

\* Response::json::<GooglePlacesReponse>(): read the body, then parse it
ResponseJsonPlaces(body) ==
    IF body.t = "err" THEN Err(body.e) ELSE DeGooglePlacesReponse(body)

\* Response::json::<GetRoutesReponse>()
ResponseJsonRoutes(body) ==
    IF body.t = "err" THEN Err(body.e) ELSE DeGetRoutesReponse(body)

\* PlacesMatch with the cause of the failure in the response
PlacesMatchLeaky(r) ==
    IF r.ok THEN JsonResponse(SerGooglePlacesReponse(r.val))
    ELSE [status |-> 500, text |-> r.err]

\* the inner match of get_places
PlacesMatch(r) == IF r.ok THEN JsonResponse(SerGooglePlacesReponse(r.val)) ELSE InternalError
PlacesJsonOutcome(body) == The({ PlacesMatch(u) : u \in {ResponseJsonPlaces(body)} })

\* the inner match of get_routes
RoutesMatch(r) == IF r.ok THEN JsonResponse(SerGetRoutesReponse(r.val)) ELSE InternalError
RoutesJsonOutcome(body) == The({ RoutesMatch(u) : u \in {ResponseJsonRoutes(body)} })

(***************************************************************************)
(* State.  main() loads the key and builds AppState once; each request in  *)
(* flight occupies a slot r until its response is handed over.             *)
(*   env     the process environment main() reads                         *)
(*   state   AppState                                                      *)
(*   pc      where the handler of slot r stands                            *)
(*   req     the inbound request of slot r                                 *)
(*   call    the upstream request slot r sent                              *)
(*   reply   what came back for it: the result of send(), then the body    *)
(*   ncalls  upstream requests slot r has sent                             *)
(*   resp    the responses slot r has returned, in order                   *)
(***************************************************************************)
VARIABLES env, state, pc, req, call, reply, ncalls, resp

vars == <<env, state, pc, req, call, reply, ncalls, resp>>

Requests == 1..NumRequests

NoReq == [endpoint |-> "none"]
NoCall == [method |-> "none"]
NoReply == [send |-> [t |-> "none"], body |-> [t |-> "none"]]

Keys == {"key-A", "key-B"}

\* main(): GOOGLE_PLACES_KEY is read once, AppState is built, the router starts
Init ==
    /\ env \in [GOOGLE_PLACES_KEY : Keys]
    /\ state = [client_reqwest |-> "client", google_key |-> env.GOOGLE_PLACES_KEY]
    /\ pc = [r \in Requests |-> "idle"]
    /\ req = [r \in Requests |-> NoReq]
    /\ call = [r \in Requests |-> NoCall]
    /\ reply = [r \in Requests |-> NoReply]
    /\ ncalls = [r \in Requests |-> 0]
    /\ resp = [r \in Requests |-> <<>>]

\* GET /health-check
HealthCheck(r) ==
    /\ pc[r] = "idle"
    /\ req' = [req EXCEPT ![r] = [endpoint |-> "/health-check"]]
    /\ resp' = [resp EXCEPT ![r] = Append(@, HealthOk)]
    /\ pc' = [pc EXCEPT ![r] = "done"]
    /\ UNCHANGED <<env, state, call, reply, ncalls>>

\* get_places from its entry to send().await: validate, or build and send
GetPlacesStart(r, q) ==
    LET p == [text_query |-> q]
    IN  /\ pc[r] = "idle"
        /\ req' = [req EXCEPT ![r] = [endpoint |-> "/places", text_query |-> q]]
        /\ IF ~Validate(p)
           THEN /\ resp' = [resp EXCEPT ![r] = Append(@, BadRequest)]
                /\ pc' = [pc EXCEPT ![r] = "done"]
                /\ UNCHANGED <<call, ncalls>>
           ELSE /\ \E keys \in PlacesKeyOrders :
                     call' = [call EXCEPT ![r] = PlacesUpstreamRequest(state, p, keys)]
                /\ ncalls' = [ncalls EXCEPT ![r] = @ + 1]
                /\ pc' = [pc EXCEPT ![r] = "send_await"]
                /\ UNCHANGED resp
        /\ UNCHANGED <<env, state, reply>>

\* get_routes from its entry to send().await
GetRoutesStart(r, body) ==
    /\ pc[r] = "idle"
    /\ req' = [req EXCEPT ![r] = [endpoint |-> "/routes", body |-> body]]
    /\ call' = [call EXCEPT ![r] = RoutesUpstreamRequest(state, body)]
    /\ ncalls' = [ncalls EXCEPT ![r] = @ + 1]
    /\ pc' = [pc EXCEPT ![r] = "send_await"]
    /\ UNCHANGED <<env, state, reply, resp>>

\* the provider's side: send() completes, with an error or with a response head
UpstreamSendCompletes(r, res) ==
    /\ pc[r] = "send_await"
    /\ reply' = [reply EXCEPT ![r].send = res]
    /\ pc' = [pc EXCEPT ![r] = "send_ready"]
    /\ UNCHANGED <<env, state, req, call, ncalls, resp>>

\* the provider's side: the body has arrived (or reading it failed)
UpstreamBodyCompletes(r, body) ==
    /\ pc[r] = "json_await"
    /\ reply' = [reply EXCEPT ![r].body = body]
    /\ pc' = [pc EXCEPT ![r] = "json_ready"]
    /\ UNCHANGED <<env, state, req, call, ncalls, resp>>

\* GetPlacesAfterSend sending the request again after a failed send
GetPlacesAfterSendRetry(r) ==
    /\ pc[r] = "send_ready"
    /\ req[r].endpoint = "/places"
    /\ IF reply[r].send.t = "err"
       THEN IF ncalls[r] < 3
            THEN /\ ncalls' = [ncalls EXCEPT ![r] = @ + 1]
                 /\ pc' = [pc EXCEPT ![r] = "send_await"]
                 /\ UNCHANGED resp
            ELSE /\ resp' = [resp EXCEPT ![r] = Append(@, InternalError)]
                 /\ pc' = [pc EXCEPT ![r] = "done"]
                 /\ UNCHANGED ncalls
       ELSE /\ pc' = [pc EXCEPT ![r] = "json_await"]
            /\ UNCHANGED <<resp, ncalls>>
    /\ UNCHANGED <<env, state, req, call, reply>>

\* GetPlacesAfterSend with error_for_status(): an error status of the provider is
\* a failed call
GetPlacesAfterSendChecked(r) ==
    /\ pc[r] = "send_ready"
    /\ req[r].endpoint = "/places"
    /\ IF reply[r].send.t = "err" \/ reply[r].send.status >= 400
       THEN /\ resp' = [resp EXCEPT ![r] = Append(@, InternalError)]
            /\ pc' = [pc EXCEPT ![r] = "done"]
       ELSE /\ pc' = [pc EXCEPT ![r] = "json_await"]
            /\ UNCHANGED resp
    /\ UNCHANGED <<env, state, req, call, reply, ncalls>>

\* get_places resumed after send().await: the outer match
GetPlacesAfterSend(r) ==
    /\ pc[r] = "send_ready"
    /\ req[r].endpoint = "/places"
    /\ IF reply[r].send.t = "err"
       THEN /\ resp' = [resp EXCEPT ![r] = Append(@, InternalError)]
            /\ pc' = [pc EXCEPT ![r] = "done"]
       ELSE /\ pc' = [pc EXCEPT ![r] = "json_await"]
            /\ UNCHANGED resp
    /\ UNCHANGED <<env, state, req, call, reply, ncalls>>

\* GetPlacesAfterJson reading the body from a buffer the handlers share: the body
\* of the first slot that has one ready
GetPlacesAfterJsonShared(r) ==
    /\ pc[r] = "json_ready"
    /\ req[r].endpoint = "/places"
    /\ resp' = [resp EXCEPT ![r] =
                  Append(@, PlacesJsonOutcome(
                      reply[CHOOSE s \in Requests :
                               pc[s] = "json_ready" /\ \A t \in Requests :
                                   pc[t] = "json_ready" => s <= t].body))]
    /\ pc' = [pc EXCEPT ![r] = "done"]
    /\ UNCHANGED <<env, state, req, call, reply, ncalls>>

\* get_places resumed after json().await: the inner match
GetPlacesAfterJson(r) ==
    /\ pc[r] = "json_ready"
    /\ req[r].endpoint = "/places"
    /\ resp' = [resp EXCEPT ![r] = Append(@, PlacesJsonOutcome(reply[r].body))]
    /\ pc' = [pc EXCEPT ![r] = "done"]
    /\ UNCHANGED <<env, state, req, call, reply, ncalls>>

\* GetRoutesAfterSend without the return in the error arm
GetRoutesAfterSendFallThrough(r) ==
    /\ pc[r] = "send_ready"
    /\ req[r].endpoint = "/routes"
    /\ IF reply[r].send.t = "err"
       THEN resp' = [resp EXCEPT ![r] = Append(@, InternalError)]
       ELSE UNCHANGED resp
    /\ pc' = [pc EXCEPT ![r] = "json_await"]
    /\ UNCHANGED <<env, state, req, call, reply, ncalls>>

\* get_routes resumed after send().await
GetRoutesAfterSend(r) ==
    /\ pc[r] = "send_ready"
    /\ req[r].endpoint = "/routes"
    /\ IF reply[r].send.t = "err"
       THEN /\ resp' = [resp EXCEPT ![r] = Append(@, InternalError)]
            /\ pc' = [pc EXCEPT ![r] = "done"]
       ELSE /\ pc' = [pc EXCEPT ![r] = "json_await"]
            /\ UNCHANGED resp
    /\ UNCHANGED <<env, state, req, call, reply, ncalls>>

\* get_routes resumed after json().await
GetRoutesAfterJson(r) ==
    /\ pc[r] = "json_ready"
    /\ req[r].endpoint = "/routes"
    /\ resp' = [resp EXCEPT ![r] = Append(@, RoutesJsonOutcome(reply[r].body))]
    /\ pc' = [pc EXCEPT ![r] = "done"]
    /\ UNCHANGED <<env, state, req, call, reply, ncalls>>

\* the handler has returned: the response goes out and the task, with everything
\* it owned, is dropped
Deliver(r) ==
    /\ pc[r] = "done"
    /\ pc' = [pc EXCEPT ![r] = "idle"]
    /\ req' = [req EXCEPT ![r] = NoReq]
    /\ call' = [call EXCEPT ![r] = NoCall]
    /\ reply' = [reply EXCEPT ![r] = NoReply]
    /\ ncalls' = [ncalls EXCEPT ![r] = 0]
    /\ resp' = [resp EXCEPT ![r] = <<>>]
    /\ UNCHANGED <<env, state>>

(***************************************************************************)
(* Inputs.  The translation of one request is explored over the full sets  *)
(* below (SpecTranslate); several requests in flight are explored over the *)
(* short sets (Spec), since the slots do not share anything that an input  *)
(* could reach.                                                            *)
(***************************************************************************)
Pizza == <<"p", "i", "z", "z", "a">>
Undefine == SubSeq(Sentinel, 1, 8)
Ndefined == SubSeq(Sentinel, 2, 9)

\* text queries: empty, plain, the sentinel alone, inside a longer text, cut
\* short, in another case, broken by a space, and overlapping itself
Queries ==
    { <<>>, <<"x">>, Pizza, Sentinel,
      <<"x">> \o Sentinel, Sentinel \o <<"x">>, Pizza \o <<" ">> \o Sentinel \o <<" ">> \o Pizza,
      Undefine, Ndefined, <<"U">> \o Ndefined, Undefine \o <<" ">> \o <<"d">>,
      Undefine \o <<"d">>, SubSeq(Sentinel, 1, 5) \o Sentinel }

ShortQueries == { Pizza, Sentinel }

F32Of(D, p) == NearestF32(D, p)

\* bodies of POST /routes, as the Json extractor hands them over
RouteBodies ==
    { [origin_location |-> [latitude |-> F32Of(374197340, 7), longitude |-> F32Of(-1220827784, 7)],
       destination_location |-> [latitude |-> F32Of(37417670, 6),
                                 longitude |-> F32Of(-122079595, 6)],
       departure_time |-> "2023-10-15T15:01:23.045123456Z"],
      [origin_location |-> [latitude |-> F32Of(0, 0), longitude |-> F32Of(15, 1)],
       destination_location |-> [latitude |-> F32Of(-40, 0), longitude |-> F32Of(16777217, 0)],
       departure_time |-> ""] }

ShortRouteBodies ==
    { [origin_location |-> [latitude |-> F32Of(375, 1), longitude |-> F32Of(-12225, 2)],
       destination_location |-> [latitude |-> F32Of(40, 0), longitude |-> F32Of(-74, 0)],
       departure_time |-> "2023-10-15T15:01:23Z"] }

SendResults ==
    { SendErr("connection refused"), SendErr("operation timed out"), SendOk(200), SendOk(403) }

ShortSendResults == { SendErr("operation timed out"), SendOk(200), SendOk(403) }

\* places as the provider writes them
PlaceFull ==
    JObj([id |-> JStr("ChIJ1"), formattedAddress |-> JStr("1 Main St, Sydney"),
          priceLevel |-> JStr("PRICE_LEVEL_MODERATE"),
          displayName |-> JObj([text |-> JStr("Cafe"), languageCode |-> JStr("en")]),
          location |-> JObj([latitude |-> JNum(-338688197, 7),
                             longitude |-> JNum(1512092955, 7)])])
\* no price level, no language code, a field the struct does not know
PlaceBare ==
    JObj([id |-> JStr("ChIJ2"), formattedAddress |-> JStr("2 High St"),
          displayName |-> JObj([text |-> JStr("Bar")]),
          types |-> JArr(<<JStr("bar")>>),
          location |-> JObj([latitude |-> JNum(375, 1), longitude |-> JNum(-12225, 2)])])
\* explicit nulls, whole-number coordinates
PlaceNulls ==
    JObj([id |-> JStr("ChIJ3"), formattedAddress |-> JStr("3 Low St"),
          priceLevel |-> JNull,
          displayName |-> JObj([text |-> JStr("Inn"), languageCode |-> JNull]),
          location |-> JObj([latitude |-> JNum(40, 0), longitude |-> JNum(-74, 0)])])
\* the location written positionally
PlacePositional ==
    JObj([id |-> JStr("ChIJ4"), formattedAddress |-> JStr("4 Rue"),
          displayName |-> JObj([text |-> JStr("Bistro"), languageCode |-> JStr("fr")]),
          location |-> JArr(<<JNum(488566, 4), JNum(23522, 4)>>)])
PlaceNoId ==
    JObj([formattedAddress |-> JStr("5 Nowhere"),
          displayName |-> JObj([text |-> JStr("Anon")]),
          location |-> JObj([latitude |-> JNum(1, 0), longitude |-> JNum(2, 0)])])
PlaceBadLatitude ==
    JObj([id |-> JStr("ChIJ6"), formattedAddress |-> JStr("6 Text St"),
          displayName |-> JObj([text |-> JStr("Txt")]),
          location |-> JObj([latitude |-> JStr("37.5"), longitude |-> JNum(2, 0)])])
PlaceNoLongitude ==
    JObj([id |-> JStr("ChIJ7"), formattedAddress |-> JStr("7 Half St"),
          displayName |-> JObj([text |-> JStr("Half")]),
          location |-> JObj([latitude |-> JNum(1, 0)])])

\* two values that fail, the later field of the struct first in the text
PlaceTwoFaults ==
    JObjIn(<<"displayName", "id">>, [displayName |-> JObj(<<>>), id |-> JNum(5, 0)])

PlaceObjects ==
    { PlaceFull, PlaceBare, PlaceNulls, PlacePositional, PlaceNoId, PlaceBadLatitude,
      PlaceNoLongitude, PlaceTwoFaults }

ErrorBody == JObj([error |-> JObj([code |-> JNum(403, 0), status |-> JStr("PERMISSION_DENIED")])])

PlacesBodies ==
    { Malformed, BodyErr("error decoding response body"), JNull, JStr("OK"), JObj(<<>>),
      ErrorBody, JObj([places |-> JNull]), JObj([places |-> JStr("none")]), JArr(<<JNull>>) }
    \cup { JObj([places |-> JArr(l)]) :
               l \in UNION { [1..k -> PlaceObjects] : k \in 0..MaxPlaces } }

ShortPlacesBodies == { Malformed, ErrorBody, JObj([places |-> JArr(<<PlaceBare>>)]) }

\* routes as the provider writes them
RouteShort ==
    JObj([distanceMeters |-> JNum(772, 0), duration |-> JStr("165s"),
          polyline |-> JObj([encodedPolyline |-> JStr("ipkcFfichVnP@j@")])])
\* longer than 2^24 metres, an odd number of them
RouteLong ==
    JObj([distanceMeters |-> JNum(16777217, 0), duration |-> JStr("700000s"),
          polyline |-> JObj([encodedPolyline |-> JStr("_p~iF~ps|U_ulLnnqC")])])
\* a fraction, and a field the struct does not know
RouteFraction ==
    JObj([distanceMeters |-> JNum(12345, 1), duration |-> JStr("90s"),
          staticDuration |-> JStr("80s"),
          polyline |-> JObj([encodedPolyline |-> JStr("a~l~Fjk~uOwHJy@P")])])
\* origin and destination coincide: the provider leaves the zero distance out
RouteNoDistance ==
    JObj([duration |-> JStr("0s"), polyline |-> JObj([encodedPolyline |-> JStr("")])])
RouteBadDistance ==
    JObj([distanceMeters |-> JStr("772"), duration |-> JStr("165s"),
          polyline |-> JObj([encodedPolyline |-> JStr("ipkcFfichVnP@j@")])])
RouteNoPolyline ==
    JObj([distanceMeters |-> JNum(5, 0), duration |-> JStr("1s"), polyline |-> JObj(<<>>)])

RouteTwoFaults ==
    JObjIn(<<"polyline", "duration">>, [polyline |-> JObj(<<>>), duration |-> JNum(5, 0)])

RouteObjects ==
    { RouteShort, RouteLong, RouteFraction, RouteNoDistance, RouteBadDistance, RouteNoPolyline,
      RouteTwoFaults }

RoutesBodies ==
    { Malformed, BodyErr("error decoding response body"), JObj(<<>>), ErrorBody,
      JObj([routes |-> JNull]) }
    \cup { JObj([routes |-> JArr(l)]) :
               l \in UNION { [1..k -> RouteObjects] : k \in 0..MaxRoutes } }

ShortRoutesBodies == { JObj(<<>>), JObj([routes |-> JArr(<<RouteShort>>)]) }

(***************************************************************************)
(* Next-state relation, over the slots and the inputs given.               *)
(***************************************************************************)
NextOver(Rs, Qs, Bs, Ss, PBs, RBs) ==
    \E r \in Rs :
        \/ HealthCheck(r)
        \/ \E q \in Qs : GetPlacesStart(r, q)
        \/ \E b \in Bs : GetRoutesStart(r, b)
        \/ \E res \in Ss : UpstreamSendCompletes(r, res)
        \/ \E body \in (IF req[r].endpoint = "/places" THEN PBs ELSE RBs) :
              UpstreamBodyCompletes(r, body)
        \/ GetPlacesAfterSend(r)
        \/ GetPlacesAfterJson(r)
        \/ GetRoutesAfterSend(r)
        \/ GetRoutesAfterJson(r)
        \/ Deliver(r)

\* requests in flight together, short inputs
Next == NextOver(Requests, ShortQueries, ShortRouteBodies, ShortSendResults,
                 ShortPlacesBodies, ShortRoutesBodies)

Spec == Init /\ [][Next]_vars

\* a handler whose await has completed is resumed, and a returned response is
\* handed over; the provider is under no obligation to answer
Fairness ==
    \A r \in Requests :
        /\ WF_vars(GetPlacesAfterSend(r))
        /\ WF_vars(GetPlacesAfterJson(r))
        /\ WF_vars(GetRoutesAfterSend(r))
        /\ WF_vars(GetRoutesAfterJson(r))
        /\ WF_vars(Deliver(r))

\* for the progress of a request what a reply holds matters only as far as it
\* parses or not: one failure and one success of each await
FairSendResults == { SendErr("connection refused"), SendOk(200) }
FairPlacesBodies == { Malformed, JObj([places |-> JArr(<<>>)]) }
FairRoutesBodies == { Malformed, JObj([routes |-> JArr(<<>>)]) }

NextFair == NextOver(Requests, ShortQueries, ShortRouteBodies, FairSendResults,
                     FairPlacesBodies, FairRoutesBodies)

FairSpec == Init /\ [][NextFair]_vars /\ Fairness

\* one request at a time, the full inputs
NextTranslate == NextOver({1}, Queries, RouteBodies, SendResults, PlacesBodies, RoutesBodies)

SpecTranslate == Init /\ [][NextTranslate]_vars

(***************************************************************************)
(* Vocabulary of the properties.  What the provider wrote is read here     *)
(* from the JSON itself, not through the deserialisers above.              *)
(***************************************************************************)
IsPlaces(r) == req[r].endpoint = "/places"
IsRoutes(r) == req[r].endpoint = "/routes"

\* the text has the sentinel somewhere in it
HasSentinel(q) == \E i \in 1..Len(q) : \E j \in i..Len(q) : SubSeq(q, i, j) = Sentinel

\* field k of a struct the provider wrote as an object or positionally
UpField(v, names, k) ==
    IF v.t = "object" THEN Field(v.o, k)
    ELSE v.a[CHOOSE i \in 1..Len(names) : names[i] = k]

IsStructOf(v, names) == v.t = "object" \/ (v.t = "array" /\ Len(v.a) = Len(names))
IsOptional(v) == v.t \in {"string", "null", "absent"}
\* an optional value as the response shows it: a missing one is null
Opt(v) == IF v.t = "absent" THEN JNull ELSE v

PlaceNames == <<"id", "formattedAddress", "priceLevel", "displayName", "location">>
NameNames == <<"text", "languageCode">>
LocationNames == <<"latitude", "longitude">>
RouteNames == <<"distanceMeters", "duration", "polyline">>

WellFormedName(v) ==
    /\ IsStructOf(v, NameNames)
    /\ UpField(v, NameNames, "text").t = "string"
    /\ IsOptional(UpField(v, NameNames, "languageCode"))

WellFormedLocation(v) ==
    /\ IsStructOf(v, LocationNames)
    /\ UpField(v, LocationNames, "latitude").t = "number"
    /\ UpField(v, LocationNames, "longitude").t = "number"

WellFormedPlace(v) ==
    /\ IsStructOf(v, PlaceNames)
    /\ UpField(v, PlaceNames, "id").t = "string"
    /\ UpField(v, PlaceNames, "formattedAddress").t = "string"
    /\ IsOptional(UpField(v, PlaceNames, "priceLevel"))
    /\ WellFormedName(UpField(v, PlaceNames, "displayName"))
    /\ WellFormedLocation(UpField(v, PlaceNames, "location"))

\* the `places` of a reply, Absent when the reply has none
PlacesOf(body) == UpField(body, <<"places">>, "places")

\* a reply that parses as GooglePlacesReponse
WellFormedPlacesBody(body) ==
    /\ IsStructOf(body, <<"places">>)
    /\ \/ PlacesOf(body).t \in {"null", "absent"}
       \/ /\ PlacesOf(body).t = "array"
          /\ \A i \in 1..Len(PlacesOf(body).a) : WellFormedPlace(PlacesOf(body).a[i])

\* a decimal, its trailing zeros after the point dropped
Canon(v) == Norm([digits |-> v.digits, scale |-> v.scale])
SignificantDigits(v) == NumDigits(Abs(Canon(v).digits))

\* the two numbers are the same number
SameValue(out, up) == out.t = "number" /\ Canon(out) = Canon(up)

\* the two numbers are the same single-precision float; a number of at most
\* six significant digits is such a float's shortest decimal, and stays as it is
SameF32(out, up) ==
    /\ out.t = "number"
    /\ NearestF32(out.digits, out.scale) = NearestF32(up.digits, up.scale)
    /\ SignificantDigits(out) <= 9
    /\ SignificantDigits(up) <= 6 => Canon(out) = Canon(up)

\* a coordinate of the response against the provider's: the same number when
\* `exact`, the same single-precision float otherwise
SameCoordinate(exact, out, up) == IF exact THEN SameValue(out, up) ELSE SameF32(out, up)

\* a place of the response against the place the provider wrote
SamePlace(out, up, exact) ==
    /\ out.t = "object"
    /\ DOMAIN out.o = {PlaceNames[i] : i \in 1..Len(PlaceNames)}
    /\ out.o.id = UpField(up, PlaceNames, "id")
    /\ out.o.formattedAddress = UpField(up, PlaceNames, "formattedAddress")
    /\ out.o.priceLevel = Opt(UpField(up, PlaceNames, "priceLevel"))
    /\ out.o.displayName =
          JObj([text |-> UpField(UpField(up, PlaceNames, "displayName"), NameNames, "text"),
                languageCode |->
                    Opt(UpField(UpField(up, PlaceNames, "displayName"), NameNames,
                                "languageCode"))])
    /\ out.o.location.t = "object"
    /\ DOMAIN out.o.location.o = {"latitude", "longitude"}
    /\ SameCoordinate(exact, out.o.location.o.latitude,
                      UpField(UpField(up, PlaceNames, "location"), LocationNames, "latitude"))
    /\ SameCoordinate(exact, out.o.location.o.longitude,
                      UpField(UpField(up, PlaceNames, "location"), LocationNames, "longitude"))

\* the JSON of a /places response against the reply it was made from
SamePlaces(out, body, exact) ==
    /\ out.t = "object"
    /\ DOMAIN out.o = {"places"}
    /\ IF PlacesOf(body).t = "array"
       THEN /\ out.o.places.t = "array"
            /\ Len(out.o.places.a) = Len(PlacesOf(body).a)
            /\ \A i \in 1..Len(PlacesOf(body).a) :
                  SamePlace(out.o.places.a[i], PlacesOf(body).a[i], exact)
       ELSE out.o.places = JNull

\* a query the spec calls valid
ValidQuery(q) == q # <<>> /\ ~HasSentinel(q)

\* the request went out exactly once, with the query and the fixed result count
OneCallWith(r, q) ==
    /\ ncalls[r] = 1
    /\ call[r].method = "POST"
    /\ call[r].url = "https://places.googleapis.com/v1/places:searchText"
    /\ call[r].json.t = "object"
    /\ call[r].json.o = [textQuery |-> JStr(q), maxResultCount |-> JStr("10")]

\* the reply of slot r arrived, parsed, and the handler has returned
PlacesReplyParsed(r) ==
    /\ IsPlaces(r)
    /\ pc[r] = "done"
    /\ reply[r].send.t = "ok"
    /\ WellFormedPlacesBody(reply[r].body)

(***************************************************************************)
(* C1.  A query that contains "undefined" is answered 400 "Invalid         *)
(* request", and no request to the provider is sent for it: not before the *)
(* response, and not afterwards.                                           *)
(***************************************************************************)
\* C1: every /places request whose query contains the sentinel has its 400
\* response, has sent nothing, and holds no upstream request
C1_SentinelRejectedWithoutCall ==
    \A r \in Requests :
        IsPlaces(r) /\ HasSentinel(req[r].text_query) =>
            /\ ncalls[r] = 0
            /\ call[r] = NoCall
            /\ pc[r] = "done"
            /\ resp[r] = <<[status |-> 400, text |-> "Invalid request"]>>

C1_Witness ==
    \E r \in Requests :
        /\ IsPlaces(r)
        /\ req[r].text_query = Pizza \o <<" ">> \o Sentinel \o <<" ">> \o Pizza
        /\ resp[r] = <<BadRequest>>
        /\ ncalls[r] = 0

(***************************************************************************)
(* C2.  A non-empty query without the sentinel goes to the provider once,  *)
(* unchanged, with maxResultCount "10"; when the reply parses, the         *)
(* response has the same places in the same order.                         *)
(***************************************************************************)
\* C2 as claimed: ... with the same field values, the coordinates included
C2_SameFieldValues ==
    \A r \in Requests :
        IsPlaces(r) /\ ValidQuery(req[r].text_query) =>
            /\ OneCallWith(r, req[r].text_query)
            /\ PlacesReplyParsed(r) =>
                  /\ Len(resp[r]) = 1
                  /\ resp[r][1].status = 200
                  /\ SamePlaces(resp[r][1].json, reply[r].body, TRUE)

\* C2 as amended: one upstream call with the query and maxResultCount "10";
\* when the reply parses, the 200 response has the same places in the same
\* order, every text field equal (a missing optional one as null) and every
\* coordinate the same single-precision float as the provider's number, equal
\* to it when that number has at most six significant digits
C2_SameFieldsSinglePrecision ==
    \A r \in Requests :
        IsPlaces(r) /\ ValidQuery(req[r].text_query) =>
            /\ OneCallWith(r, req[r].text_query)
            /\ PlacesReplyParsed(r) =>
                  /\ Len(resp[r]) = 1
                  /\ resp[r][1].status = 200
                  /\ SamePlaces(resp[r][1].json, reply[r].body, FALSE)

C2_Witness ==
    \E r \in Requests :
        /\ IsPlaces(r)
        /\ req[r].text_query = Pizza
        /\ pc[r] = "done"
        /\ ncalls[r] = 1
        /\ reply[r].body = JObj([places |-> JArr(<<PlaceFull, PlacePositional>>)])
        /\ resp[r][1].status = 200
        /\ resp[r][1].json.o.places.a[1].o.location.o.latitude = JNum(-3386882, 5)

(***************************************************************************)
(* C3.  The empty query is claimed to be refused like the sentinel.        *)
(***************************************************************************)
\* C3: a /places request with the empty query has its 400 response and has
\* sent nothing to the provider
C3_EmptyQueryRejected ==
    \A r \in Requests :
        IsPlaces(r) /\ req[r].text_query = <<>> =>
            /\ ncalls[r] = 0
            /\ pc[r] = "done"
            /\ resp[r] = <<[status |-> 400, text |-> "Invalid request"]>>

(***************************************************************************)
(* C5.  A reply without places is a success.                               *)
(***************************************************************************)
\* C5: when the reply is an object whose `places` is null or missing, the
\* response is 200 with places null, never a 400 or a 500
C5_NoPlacesIsSuccess ==
    \A r \in Requests :
        /\ IsPlaces(r)
        /\ pc[r] = "done"
        /\ reply[r].send.t = "ok"
        /\ reply[r].body.t = "object"
        /\ Field(reply[r].body.o, "places").t \in {"null", "absent"}
        => resp[r] = <<[status |-> 200, json |-> JObj([places |-> JNull])]>>

C5_Witness ==
    \E r \in Requests :
        /\ IsPlaces(r)
        /\ pc[r] = "done"
        /\ reply[r].body = JObj([places |-> JNull])
        /\ resp[r] = <<JsonResponse(JObj([places |-> JNull]))>>

(***************************************************************************)
(* Routes of a reply.                                                      *)
(***************************************************************************)
RoutesOf(body) == UpField(body, <<"routes">>, "routes")

WellFormedPolyline(v) ==
    /\ IsStructOf(v, <<"encodedPolyline">>)
    /\ UpField(v, <<"encodedPolyline">>, "encodedPolyline").t = "string"

WellFormedRoute(v) ==
    /\ IsStructOf(v, RouteNames)
    /\ UpField(v, RouteNames, "distanceMeters").t = "number"
    /\ UpField(v, RouteNames, "duration").t = "string"
    /\ WellFormedPolyline(UpField(v, RouteNames, "polyline"))

\* a reply that parses as GetRoutesReponse
WellFormedRoutesBody(body) ==
    /\ IsStructOf(body, <<"routes">>)
    /\ RoutesOf(body).t = "array"
    /\ \A i \in 1..Len(RoutesOf(body).a) : WellFormedRoute(RoutesOf(body).a[i])

\* the same single-precision float, and a whole number of metres up to 2^24
\* stays as it is
SameDistance(out, up) ==
    /\ SameF32(out, up)
    /\ up.scale = 0 /\ Abs(up.digits) <= 16777216 => Canon(out) = Canon(up)

\* a distance of the response against the provider's
SameMetres(exact, out, up) == IF exact THEN SameValue(out, up) ELSE SameDistance(out, up)

SameRoute(out, up, exact) ==
    /\ out.t = "object"
    /\ DOMAIN out.o = {RouteNames[i] : i \in 1..Len(RouteNames)}
    /\ SameMetres(exact, out.o.distanceMeters, UpField(up, RouteNames, "distanceMeters"))
    /\ out.o.duration = UpField(up, RouteNames, "duration")
    /\ out.o.polyline =
          JObj([encodedPolyline |->
                    UpField(UpField(up, RouteNames, "polyline"), <<"encodedPolyline">>,
                            "encodedPolyline")])

\* the JSON of a /routes response against the reply it was made from
SameRoutes(out, body, exact) ==
    /\ out.t = "object"
    /\ DOMAIN out.o = {"routes"}
    /\ out.o.routes.t = "array"
    /\ Len(out.o.routes.a) = Len(RoutesOf(body).a)
    /\ \A i \in 1..Len(RoutesOf(body).a) :
          SameRoute(out.o.routes.a[i], RoutesOf(body).a[i], exact)

RoutesReplyParsed(r) ==
    /\ IsRoutes(r)
    /\ pc[r] = "done"
    /\ reply[r].send.t = "ok"
    /\ WellFormedRoutesBody(reply[r].body)

\* the one upstream call of slot r failed: the send, the read of the body, or
\* the parse of the body into the expected shape
UpstreamFailed(r) ==
    /\ ncalls[r] >= 1
    /\ \/ reply[r].send.t = "err"
       \/ reply[r].body.t = "err"
       \/ /\ reply[r].body.t \notin {"none", "err"}
          /\ IsPlaces(r) => ~WellFormedPlacesBody(reply[r].body)
          /\ IsRoutes(r) => ~WellFormedRoutesBody(reply[r].body)

(***************************************************************************)
(* C4.  A failed upstream call is a 500, and the call is not repeated.     *)
(***************************************************************************)
\* C4: on /places and on /routes a request sends at most one upstream request
\* over its whole handling, and when that call failed (the send, the read or
\* the parse) the response is the 500
C4_FailureIs500NoRetry ==
    \A r \in Requests :
        /\ ncalls[r] <= 1
        /\ pc[r] = "done" /\ UpstreamFailed(r) =>
              resp[r] = <<[status |-> 500, text |-> "Something went wrong. Try again later"]>>

C4_Witness ==
    /\ \E r \in Requests :
          /\ IsRoutes(r) /\ pc[r] = "done" /\ ncalls[r] = 1
          /\ reply[r].send = SendErr("operation timed out")
          /\ resp[r] = <<InternalError>>
    /\ \E r \in Requests :
          /\ IsPlaces(r) /\ pc[r] = "done" /\ ncalls[r] = 1
          /\ reply[r].body = Malformed
          /\ resp[r] = <<InternalError>>

(***************************************************************************)
(* C6.  The routes of a reply come back, all of them, in order.            *)
(***************************************************************************)
\* C6 as claimed: N routes in, the same N out in the same order, each with the
\* original distance, duration and polyline
C6_RoutesUnchanged ==
    \A r \in Requests :
        RoutesReplyParsed(r) =>
            /\ Len(resp[r]) = 1
            /\ resp[r][1].status = 200
            /\ SameRoutes(resp[r][1].json, reply[r].body, TRUE)

\* C6 as amended: N routes in, the same N out in the same order, duration and
\* polyline unchanged, the distance the same single-precision float as the
\* provider's number: unchanged when that is a whole number of metres up to
\* 2^24 or has at most six significant digits
C6_RoutesSinglePrecision ==
    \A r \in Requests :
        RoutesReplyParsed(r) =>
            /\ Len(resp[r]) = 1
            /\ resp[r][1].status = 200
            /\ SameRoutes(resp[r][1].json, reply[r].body, FALSE)

C6_Witness ==
    \E r \in Requests :
        /\ IsRoutes(r)
        /\ pc[r] = "done"
        /\ reply[r].body = JObj([routes |-> JArr(<<RouteLong, RouteShort>>)])
        /\ resp[r][1].status = 200
        /\ Len(resp[r][1].json.o.routes.a) = 2
        /\ resp[r][1].json.o.routes.a[1].o.distanceMeters = JNum(16777216, 0)
        /\ resp[r][1].json.o.routes.a[2].o.distanceMeters = JNum(772, 0)

(***************************************************************************)
(* C7.  One outcome per request, in the end delivered, nothing kept.       *)
(***************************************************************************)
\* everything the model holds for slot r
SlotOf(r) == <<pc[r], req[r], call[r], reply[r], ncalls[r], resp[r]>>
EmptySlot == <<"idle", NoReq, NoCall, NoReply, 0, <<>>>>

\* the upstream call of slot r has completed, with a reply or a failure
CallCompleted(r) ==
    \/ pc[r] = "send_ready" /\ reply[r].send.t = "err"
    \/ pc[r] = "json_ready"

HasOutcome(r) == pc[r] = "done" /\ Len(resp[r]) = 1

\* C7: a request never has two outcomes and has one exactly when its handler
\* has returned; a request whose upstream call completed gets its outcome, and
\* the outcome is handed over; handing it over leaves nothing of the request
\* behind, and AppState is what main() built
C7_ExactlyOneOutcome ==
    /\ [](\A r \in Requests : Len(resp[r]) <= 1 /\ (pc[r] = "done" <=> Len(resp[r]) = 1))
    /\ [](state = [client_reqwest |-> "client", google_key |-> env.GOOGLE_PLACES_KEY])
    /\ \A r \in Requests : CallCompleted(r) ~> HasOutcome(r)
    /\ \A r \in Requests : HasOutcome(r) ~> (SlotOf(r) = EmptySlot)
    /\ [][\A r \in Requests :
            pc[r] = "done" /\ pc'[r] # "done" =>
                SlotOf(r)' = EmptySlot /\ state' = state /\ env' = env]_vars

C7_Witness ==
    \E r \in Requests :
        /\ IsRoutes(r)
        /\ HasOutcome(r)
        /\ reply[r].body = JObj([routes |-> JArr(<<>>)])
        /\ resp[r][1].status = 200

(***************************************************************************)
(* C8.  Requests in flight together do not touch each other.               *)
(***************************************************************************)
\* the key headers of an upstream request
KeysSent(c) ==
    {c.headers[i][2] : i \in {j \in DOMAIN c.headers : c.headers[j][1] = "X-Goog-Api-Key"}}

\* C8: AppState is never modified; every upstream request carries the key read
\* at startup and no other; a step of one request leaves every other request
\* as it was; and two requests with the same input and the same upstream reply
\* have the same response, whatever else was in flight
C8_RequestsIndependent ==
    /\ [](state = [client_reqwest |-> "client", google_key |-> env.GOOGLE_PLACES_KEY])
    /\ [](\A r \in Requests : call[r] # NoCall => KeysSent(call[r]) = {env.GOOGLE_PLACES_KEY})
    /\ [](\A r1, r2 \in Requests :
            /\ pc[r1] = "done" /\ pc[r2] = "done"
            /\ req[r1] = req[r2] /\ reply[r1] = reply[r2]
            => resp[r1] = resp[r2])
    /\ [][/\ state' = state
          /\ env' = env
          /\ \A r1, r2 \in Requests :
                r1 # r2 /\ SlotOf(r1)' # SlotOf(r1) => SlotOf(r2)' = SlotOf(r2)]_vars

C8_Witness ==
    \E r1, r2 \in Requests :
        /\ r1 # r2
        /\ IsPlaces(r1) /\ pc[r1] = "json_await"
        /\ IsRoutes(r2) /\ pc[r2] = "done" /\ resp[r2][1].status = 200
        /\ KeysSent(call[r1]) = {"key-B"}
        /\ KeysSent(call[r2]) = {"key-B"}

(***************************************************************************)
(* C9.  The 500 says nothing about the failure.                            *)
(***************************************************************************)
\* C9: two requests of one endpoint that both ended in an upstream error,
\* whatever its cause and text, have the identical response: the 500 with its
\* fixed message, which is not the 400 of a refused input
C9_FailureNotExposed ==
    \A r1, r2 \in Requests :
        /\ pc[r1] = "done" /\ UpstreamFailed(r1)
        /\ pc[r2] = "done" /\ UpstreamFailed(r2)
        /\ req[r1].endpoint = req[r2].endpoint
        => /\ resp[r1] = resp[r2]
           /\ Len(resp[r1]) = 1
           /\ resp[r1][1].status = 500
           /\ resp[r1][1].text = "Something went wrong. Try again later"
           /\ resp[r1][1] # [status |-> 400, text |-> "Invalid request"]

C9_Witness ==
    \E r1, r2 \in Requests :
        /\ IsPlaces(r1) /\ IsPlaces(r2)
        /\ pc[r1] = "done" /\ reply[r1].send = SendErr("operation timed out")
        /\ pc[r2] = "done" /\ reply[r2].body = Malformed
        /\ resp[r1] = <<InternalError>>
        /\ resp[r2] = <<InternalError>>

(***************************************************************************)
(* C10.  The provider's status code is not looked at.                      *)
(***************************************************************************)
\* C10: a /places reply, whatever its status, whose JSON object has no `places`
\* gives 200 with places null; a /routes reply, whatever its status, whose JSON
\* object has no `routes` gives 500; and two requests of one endpoint whose
\* calls completed with the same body have the same response, whatever the
\* two status codes; a handler whose send() gave a response, of whatever status,
\* answers only after it has read the body
C10_StatusNotInspected ==
    /\ \A r \in Requests :
          pc[r] = "done" /\ reply[r].send.t = "ok" => reply[r].body.t # "none"
    /\ \A r \in Requests :
          /\ IsPlaces(r) /\ pc[r] = "done" /\ reply[r].send.t = "ok"
          /\ reply[r].body.t = "object" /\ "places" \notin DOMAIN reply[r].body.o
          => resp[r] = <<[status |-> 200, json |-> JObj([places |-> JNull])]>>
    /\ \A r \in Requests :
          /\ IsRoutes(r) /\ pc[r] = "done" /\ reply[r].send.t = "ok"
          /\ reply[r].body.t = "object" /\ "routes" \notin DOMAIN reply[r].body.o
          => resp[r] = <<[status |-> 500, text |-> "Something went wrong. Try again later"]>>
    /\ \A r1, r2 \in Requests :
          /\ pc[r1] = "done" /\ pc[r2] = "done"
          /\ req[r1].endpoint = req[r2].endpoint
          /\ reply[r1].send.t = "ok" /\ reply[r2].send.t = "ok"
          /\ reply[r1].body = reply[r2].body
          => resp[r1] = resp[r2]

C10_Witness ==
    \E r1, r2 \in Requests :
        /\ IsPlaces(r1) /\ pc[r1] = "done"
        /\ reply[r1].send = SendOk(403) /\ reply[r1].body = ErrorBody
        /\ resp[r1] = <<JsonResponse(JObj([places |-> JNull]))>>
        /\ IsRoutes(r2) /\ pc[r2] = "done"
        /\ reply[r2].send = SendOk(200) /\ reply[r2].body = JObj(<<>>)
        /\ resp[r2] = <<InternalError>>

====
